---- MODULE Spec2Model ----
(***************************************************************************)
(* Model of the engur vocabulary flashcard application: the review session *)
(* of the Revision page (fetchNextCard / handleRate) over the shared       *)
(* `vocabulary` table.                                                     *)
(*                                                                         *)
(* Conventions                                                             *)
(*  - time is a discrete clock `now`; timestamps are integers;             *)
(*  - a word id is the ordinal of its insertion (gen_random_uuid() never   *)
(*    returns an id twice, so ids are allocated 1, 2, 3, ...);             *)
(*  - a nullable numeric column is a set: {} is NULL, {v} is the value v;  *)
(*  - ease factors are in tenths (25 is 2.5);                              *)
(*  - every `await` of a store query is one step whose outcome is          *)
(*    "ok" (rows returned), "error" (the client returns {error}) or        *)
(*    "throw" (the promise rejects).                                       *)
(***************************************************************************)
EXTENDS Integers, Sequences, FiniteSets, TLC

\* ---------------------------------------------------------------- bounds
MaxWords == 3

MaxTime == 2

MaxSessions == 2

MaxSeeds == 2

\* rows of the table in the sessions that exhaust a batch
BatchWords == 11

\* characters of a typed word
MaxLen == 2

\* generate-vocab calls of the Lookup page in flight
MaxCalls == 2

\* calls of handleDelete and handleReviewLater made on the Deck
MaxDeckCalls == 2

\* Deck instances opened
MaxInstances == 1

\* words looked up that a full search history does not hold
NewWords == 1

\* generate-vocab requests being served
MaxRequests == 1

\* wordings in which the provider may describe a word
MaxGen == 2

\* ------------------------------------------------------ program constants
BatchLimit == 10

DefaultInterval == 1

DefaultEase == 25

MAX_HISTORY == 15

\* --------------------------------------------------------------- domains
Ids == 1..MaxWords

Outcomes == {"ok", "error", "throw"}

Ratings == {"again", "good"}

SeedTimes == {0, MaxTime}

SeedLearned == {"true", "false", "null"}

\* intervals a stored row may carry besides the default: NULL, zero and a
\* negative number
SeedIntervals == {{}, {0}, {-2}}

NoCard == [id |-> 0, interval_days |-> 0, ease_factor |-> 0]

VARIABLES
  store,          \* vocabulary table: id -> row, for the ids that have a row
  nextId,         \* number of ids allocated so far
  now,            \* the clock
  currentCard,    \* useState currentCard (NoCard is null)
  isLoading,      \* useState isLoading
  isUpdating,     \* useState isUpdating
  cardsRemaining, \* useState cardsRemaining
  againQueue,     \* againQueueRef.current (ids of the queued cards)
  seen,           \* seenCardIdsRef.current
  pc,             \* position of the running fetchNextCard, "idle" if none
  countAt,        \* timestamp bound into countQuery when it was built
  dataAt,         \* timestamp bound into the data query awaited
  counted,        \* rows matched by the count query that produced the count
  served,         \* cards presented in this session, in order
  outcome,        \* how the last fetchNextCard ended
  clean,          \* no store query of this session has failed
  remainingBefore,\* cardsRemaining as it was when the running fetch began
  readFailed,     \* a store query of the running fetch has failed
  lastRating,     \* the rating last passed to handleRate in this session
  mountedAt,      \* the time at which this session's page was mounted
  seenBefore,     \* the ids that were in `seen` when an observed restart
                  \* ended the previous session
  sessions,       \* number of mounts of the Revision page
  words,          \* Deck page: useState words, the copies of the rows in
                  \* display order
  deckMounted,    \* a Deck instance is mounted
  deckInst,       \* the number of Deck instances created; the last is the
                  \* one mounted, if one is
  isLoadingDeck,  \* Deck: useState isLoading
  deckFetch,      \* the instances whose mount's fetchWords select is in flight
  deletingId,     \* Deck: useState deletingId (0 is null)
  reviewingId,    \* Deck: useState reviewingId (0 is null)
  reviewing,      \* the handleReviewLater calls in flight
  deckCalls,      \* the number of handleDelete and handleReviewLater calls
                  \* made; the number of a handleDelete call names the
                  \* timer it arms
  swipes,         \* the armed timeouts of SwipeableCard.handleTouchEnd, in
                  \* the order in which they were armed
  pendingDelete,  \* Deck: useState pendingDelete (id, 0 is null)
  undoTimeoutRef, \* instance -> its undoTimeoutRef.current, a timer handle
                  \* (0 is null)
  timers,         \* the armed setTimeout(permanentlyDelete): handle, word
                  \* and instance
  toast,          \* the "Word removed" toast on display, which offers Undo
                  \* for a word (NoToast: none, or a toast without Undo)
  deleting,       \* the handleDelete calls in flight
  purging,        \* the permanentlyDelete calls started by a timer, in flight
  removed,        \* the words removed by handleDelete and not restored
  schedIn,        \* the ScheduleState handed to the three-outcome scheduler
  schedOut,       \* the rating applied to schedIn and the resulting state
  word,           \* Lookup page: useState word, the text of the input
  isLoadingLookup,\* Lookup page: useState isLoading
  isRefreshing,   \* Lookup page: useState isRefreshing
  isSaving,       \* Lookup page: useState isSaving
  result,         \* Lookup page: useState result (NoResult is null)
  invalidWordData,\* Lookup page: useState invalidWordData is not null
  searchHistory,  \* localStorage["vocab-search-history"], which the state
                  \* searchHistory mirrors
  invoking,       \* the generate-vocab calls of the Lookup page in flight
  saving,         \* the insert of the running handleSave (NoSave if none)
  lastInsert,     \* the lexical columns of the last row handleSave inserted
  vocab_cache,    \* generate-vocab: table vocab_cache, word -> data
  requests,       \* generate-vocab: the requests being served
  response        \* generate-vocab: the body of the last response sent

vars == <<store, nextId, now, currentCard, isLoading, isUpdating,
          cardsRemaining, againQueue, seen, pc, countAt, dataAt, counted,
          served, outcome, clean, remainingBefore, readFailed, lastRating,
          mountedAt, seenBefore, sessions, words, deckMounted, deckInst,
          isLoadingDeck, deckFetch, deletingId, reviewingId, reviewing,
          deckCalls, swipes, pendingDelete, undoTimeoutRef, timers, toast, deleting,
          purging, removed, schedIn, schedOut, word, isLoadingLookup,
          isRefreshing, isSaving, result, invalidWordData, searchHistory,
          invoking, saving, lastInsert, vocab_cache, requests, response>>

deckVars == <<words, deckMounted, deckInst, isLoadingDeck, deckFetch,
              deletingId, reviewingId, reviewing, deckCalls,
              swipes, pendingDelete,
              undoTimeoutRef, timers, toast, deleting, purging, removed>>

schedVars == <<schedIn, schedOut>>

lookupVars == <<word, isLoadingLookup, isRefreshing, isSaving, result,
                invalidWordData, searchHistory, invoking, saving, lastInsert>>

cacheVars == <<vocab_cache, requests, response>>

\* the scheduler, the Lookup page and the edge function
otherVars == <<schedVars, lookupVars, cacheVars>>

\* the state of the pages other than Revision
pageVars == <<deckVars, otherVars>>

storeVars == <<store, nextId>>

sessionVars == <<currentCard, isLoading, isUpdating, cardsRemaining,
                 againQueue, seen, pc, countAt, dataAt, counted, served,
                 outcome, clean, remainingBefore, readFailed, lastRating,
                 mountedAt, seenBefore, sessions>>

\* ------------------------------------------------------------- the table
\* variant: the default due time is a day after the insert
DefaultRow_Tomorrow(t) ==
  [next_review_at |-> t + 1, interval_days |-> {DefaultInterval},
   ease_factor |-> {DefaultEase}, created_at |-> t, is_learned |-> "false"]

\* A row as created by an insert that names only the lexical columns.
DefaultRow(t) ==
  [next_review_at |-> t, interval_days |-> {DefaultInterval},
   ease_factor |-> {DefaultEase}, created_at |-> t, is_learned |-> "false"]

\* The rows the table may hold when the page is opened: rows with the
\* default interval, due or not, learned or not, and due rows whose interval
\* is not the default.
SeedRows ==
  [next_review_at : SeedTimes, interval_days : {{DefaultInterval}},
   ease_factor : {{DefaultEase}}, created_at : {0}, is_learned : SeedLearned]
  \cup
  [next_review_at : {0}, interval_days : SeedIntervals,
   ease_factor : {{DefaultEase}}, created_at : {0}, is_learned : {"false"}]

\* The scheduling payload of a row.
ScheduleState(r) ==
  [intervalDays |-> r.interval_days, easeFactor |-> r.ease_factor,
   nextReviewAt |-> r.next_review_at, isLearned |-> r.is_learned]

\* variant: the comparison is inverted (gte)
Lte_Inverted(r, t) == r.next_review_at >= t

\* .lte("next_review_at", t)
Lte(r, t) == r.next_review_at <= t

\* .or("is_learned.is.null,is_learned.eq.false")
NotLearned(r) == r.is_learned = "null" \/ r.is_learned = "false"

\* variant: the seen ids are not excluded by the query
BaseMatch_NoNeq(t) == {i \in DOMAIN store : Lte(store[i], t)}

\* .lte(...) then one .neq("id", cardId) per member of the seen set
BaseMatch(t) == {i \in DOMAIN store : Lte(store[i], t) /\ i \notin seen}

\* the base query with the is_learned filter
FilteredMatch(t) == {i \in BaseMatch(t) : NotLearned(store[i])}

RECURSIVE Ordered(_)
\* .order("next_review_at", {ascending: true}): every listing of the rows
\* in nondecreasing next_review_at; rows with equal keys come in any order.
Ordered(S) ==
  IF S = {} THEN {<<>>}
  ELSE UNION {{<<i>> \o r : r \in Ordered(S \ {i})} :
                i \in {j \in S : \A k \in S :
                         store[j].next_review_at <= store[k].next_review_at}}

\* .limit(n)
Limit(rows, n) == SubSeq(rows, 1, IF Len(rows) < n THEN Len(rows) ELSE n)

\* JavaScript `v || d` on a nullable number
OrDefault(v, d) == IF v = {} \/ v = {0} THEN d ELSE CHOOSE x \in v : TRUE

\* the newCard object built from a row
NewCard(i) ==
  [id |-> i,
   interval_days |-> OrDefault(store[i].interval_days, DefaultInterval),
   ease_factor |-> OrDefault(store[i].ease_factor, DefaultEase)]

\* data.filter(card => !seen.has(card.id)), then the first survivor
IsUnseen(i) == i \notin seen

PickCard(rows) ==
  LET unseenCards == SelectSeq(rows, IsUnseen)
  IN  IF Len(unseenCards) > 0 THEN NewCard(unseenCards[1]) ELSE NoCard

\* ------------------------------------------- three-outcome scheduler
\* The scheduler works on decimal fractions: an interval is held in
\* thousandths of a day and an ease factor in hundredths, which is exact for
\* whole-day intervals and ease factors that are multiples of 0.05.
IntervalUnit == 1000

MinEase == 130

MaxEase == 280

EaseStepDown == 20

EaseStepUp == 10

RatingsB == {"again", "good", "easy"}

NoSchedule == [intervalDays |-> 0, easeFactor |-> 0, nextReviewAt |-> 0]

NoTransition == [rating |-> "none", at |-> 0, state |-> NoSchedule]

\* the stored states handed to the scheduler, some outside the ease range
SchedInputs ==
  [intervalDays : {1 * IntervalUnit, 2 * IntervalUnit, 4 * IntervalUnit},
   easeFactor : {100, MinEase, 250, 275, MaxEase, 300},
   nextReviewAt : SeedTimes]

Max(a, b) == IF a >= b THEN a ELSE b

Min(a, b) == IF a <= b THEN a ELSE b

\* Math.ceil of v / IntervalUnit
CeilDays(v) == -((-v) \div IntervalUnit)

\* an out-of-range easeFactor input is clamped rather than rejected
ClampEase(e) == Max(MinEase, Min(MaxEase, e))

\* the three formulas of the policy on a state whose ease is ease
Transition(intervalDays, ease, rating, from) ==
  LET i == IF rating = "again" THEN 1 * IntervalUnit
           ELSE IF rating = "good"
                THEN (intervalDays * ease) \div 100
                ELSE (intervalDays * ease * 15) \div 1000
      e == IF rating = "again"
           THEN Max(MinEase, ease - EaseStepDown)
           ELSE IF rating = "good" THEN ease
                ELSE Min(MaxEase, ease + EaseStepUp)
  IN  [intervalDays |-> i, easeFactor |-> e,
       nextReviewAt |-> from + CeilDays(i)]

\* variant: the new due time is counted from the previous due time
Scheduler_FromPreviousDue(state, rating, t) ==
  Transition(state.intervalDays, ClampEase(state.easeFactor), rating,
             state.nextReviewAt)

\* variant: the stored ease is used as it is
Scheduler_NoClamp(state, rating, t) ==
  Transition(state.intervalDays, state.easeFactor, rating, t)

\* the transition of the three-outcome policy: the stored ease is clamped
\* into [MinEase, MaxEase], then the formulas are applied, counting the due
\* time from t
Scheduler(state, rating, t) ==
  Transition(state.intervalDays, ClampEase(state.easeFactor), rating, t)

\* -------------------------------------------------------------- Init
\* no Deck instance yet: the useState / useRef initial values
InitDeckState ==
  /\ words = <<>>
  /\ deckMounted = FALSE
  /\ deckInst = 0
  /\ isLoadingDeck = TRUE
  /\ deckFetch = {}
  /\ deletingId = 0
  /\ reviewingId = 0
  /\ reviewing = {}
  /\ deckCalls = 0
  /\ swipes = <<>>
  /\ pendingDelete = 0
  /\ undoTimeoutRef = [i \in 1..MaxInstances |-> 0]
  /\ timers = {}
  /\ toast = [w |-> 0, created_at |-> 0, inst |-> 0]
  /\ deleting = {}
  /\ purging = {}
  /\ removed = {}

NoResult == [of |-> <<"-">>]

NoSave == [word |-> <<"-">>, of |-> <<"-">>]

NoResponse == [status |-> 0]

\* the Lookup page after its mount effect, over an empty stored history
InitLookupPage ==
  /\ word = <<>>
  /\ isLoadingLookup = FALSE
  /\ isRefreshing = FALSE
  /\ isSaving = FALSE
  /\ result = NoResult
  /\ invalidWordData = FALSE
  /\ invoking = {}
  /\ saving = NoSave
  /\ lastInsert = NoSave

InitLookupState ==
  /\ InitLookupPage
  /\ searchHistory = <<>>

\* an empty cache and no request
InitCache ==
  /\ vocab_cache = {}
  /\ requests = {}
  /\ response = NoResponse

\* the useState / useRef initial values of a Revision instance mounted at 1
InitSession ==
  /\ currentCard = NoCard
  /\ isLoading = TRUE
  /\ isUpdating = FALSE
  /\ cardsRemaining = 0
  /\ againQueue = {}
  /\ seen = {}
  /\ pc = "mount"
  /\ countAt = 0
  /\ dataAt = 0
  /\ counted = {}
  /\ served = <<>>
  /\ outcome = "none"
  /\ clean = TRUE
  /\ remainingBefore = 0
  /\ readFailed = FALSE
  /\ lastRating = "none"
  /\ mountedAt = 1
  /\ seenBefore = {}
  /\ sessions = 1

Init ==
  /\ \E n \in 0..MaxSeeds : \E s \in [1..n -> SeedRows] :
        /\ store = s
        /\ nextId = n
  /\ now = 1
  /\ InitSession
  /\ InitDeckState
  /\ InitLookupState
  /\ InitCache
  /\ schedIn = NoSchedule
  /\ schedOut = NoTransition

\* ------------------------------------------------------- fetchNextCard
\* variant: the call does not raise the loading flag
StartFetch_NoLoading ==
  /\ isLoading' = isLoading
  /\ countAt' = now
  /\ pc' = "count1"
  /\ outcome' = "none"
  /\ remainingBefore' = cardsRemaining
  /\ readFailed' = FALSE

\* setIsLoading(true); build countQuery; await the filtered count.
StartFetch ==
  /\ isLoading' = TRUE
  /\ countAt' = now
  /\ pc' = "count1"
  /\ outcome' = "none"
  /\ remainingBefore' = cardsRemaining
  /\ readFailed' = FALSE

\* variant: the catch block clears the card on display
FailFetch_ClearsCard ==
  /\ pc' = "idle"
  /\ isLoading' = FALSE
  /\ isUpdating' = FALSE
  /\ outcome' = "failed"
  /\ clean' = FALSE
  /\ remainingBefore' = 0
  /\ readFailed' = FALSE
  /\ countAt' = 0
  /\ dataAt' = 0
  /\ currentCard' = NoCard
  /\ UNCHANGED served

\* catch: toast "Failed to load cards"; finally: setIsLoading(false),
\* and the awaiting handleRate runs its own finally: setIsUpdating(false).
\* Neither setCurrentCard call has been reached.
FailFetch ==
  /\ pc' = "idle"
  /\ isLoading' = FALSE
  /\ isUpdating' = FALSE
  /\ outcome' = "failed"
  /\ clean' = FALSE
  /\ remainingBefore' = 0
  /\ readFailed' = FALSE
  /\ countAt' = 0
  /\ dataAt' = 0
  /\ UNCHANGED <<currentCard, served>>

\* setCardsRemaining(count + againQueue.length); build and issue dataQuery.
SetCount(ids, n) ==
  /\ cardsRemaining' = n + Cardinality(againQueue)
  /\ counted' = ids
  /\ dataAt' = now
  /\ pc' = "data1"

\* useEffect(() => { fetchNextCard() }) on mount
MountFetch ==
  /\ pc = "mount"
  /\ StartFetch
  /\ UNCHANGED <<pageVars, storeVars, now, currentCard, isUpdating, cardsRemaining,
                 againQueue, seen, dataAt, counted, served, clean, lastRating,
                 mountedAt, seenBefore, sessions>>

\* the first await: countQuery.or(is_learned ...)
CountFiltered(o) ==
  /\ pc = "count1"
  /\ \/ /\ o = "ok"
        /\ SetCount(FilteredMatch(countAt), Cardinality(FilteredMatch(countAt)))
        /\ UNCHANGED <<clean, readFailed>>
     \/ /\ o = "error"
        /\ pc' = "count2"
        /\ clean' = FALSE
        /\ readFailed' = TRUE
        /\ UNCHANGED <<cardsRemaining, counted, dataAt>>
     \/ /\ o = "throw"
        /\ pc' = "count3"
        /\ clean' = FALSE
        /\ readFailed' = TRUE
        /\ UNCHANGED <<cardsRemaining, counted, dataAt>>
  /\ UNCHANGED <<pageVars, storeVars, now, currentCard, isLoading, isUpdating,
                 againQueue, seen, countAt, served, outcome, lastRating,
                 remainingBefore, mountedAt, seenBefore, sessions>>

\* else branch: await countQuery. The builder is the object .or() has already
\* added the is_learned filter to (a filter method appends to the builder's
\* url and returns the builder itself), so the same request is issued again.
CountFallback(o) ==
  /\ pc = "count2"
  /\ \/ /\ o = "ok"
        /\ SetCount(FilteredMatch(countAt),
                    Cardinality(FilteredMatch(countAt)))
        /\ UNCHANGED <<clean, readFailed>>
     \/ /\ o = "error"
        /\ SetCount({}, 0)
        /\ clean' = FALSE
        /\ readFailed' = TRUE
     \/ /\ o = "throw"
        /\ pc' = "count3"
        /\ clean' = FALSE
        /\ readFailed' = TRUE
        /\ UNCHANGED <<cardsRemaining, counted, dataAt>>
  /\ UNCHANGED <<pageVars, storeVars, now, currentCard, isLoading, isUpdating,
                 againQueue, seen, countAt, served, outcome, lastRating,
                 remainingBefore, mountedAt, seenBefore, sessions>>

\* inner catch: await countQuery, the same builder and so the same request
CountCatch(o) ==
  /\ pc = "count3"
  /\ \/ /\ o = "ok"
        /\ SetCount(FilteredMatch(countAt),
                    Cardinality(FilteredMatch(countAt)))
        /\ UNCHANGED <<clean, readFailed, remainingBefore, isLoading,
                       isUpdating, outcome, countAt, currentCard, served>>
     \/ /\ o = "error"
        /\ SetCount({}, 0)
        /\ clean' = FALSE
        /\ readFailed' = TRUE
        /\ UNCHANGED <<remainingBefore, isLoading, isUpdating, outcome,
                       countAt, currentCard, served>>
     \/ /\ o = "throw"
        /\ FailFetch
        /\ UNCHANGED <<cardsRemaining, counted>>
  /\ UNCHANGED <<pageVars, storeVars, now, againQueue, seen, lastRating, mountedAt,
                 seenBefore, sessions>>

\* if (data) setCurrentCard(newCard) else setCurrentCard(null); finally.
Present(card) ==
  /\ currentCard' = card
  /\ served' = IF card = NoCard THEN served ELSE Append(served, card.id)
  /\ outcome' = IF card = NoCard THEN "empty" ELSE "presented"
  /\ pc' = "idle"
  /\ isLoading' = FALSE
  /\ isUpdating' = FALSE
  /\ countAt' = 0
  /\ dataAt' = 0
  /\ remainingBefore' = 0
  /\ readFailed' = FALSE

\* await dataQuery.or(is_learned ...).order(next_review_at).limit(10)
DataFiltered(o) ==
  /\ pc = "data1"
  /\ \/ /\ o = "ok"
        /\ \E rows \in Ordered(FilteredMatch(dataAt)) :
              Present(PickCard(Limit(rows, BatchLimit)))
        /\ UNCHANGED clean
     \/ /\ o = "error"
        /\ pc' = "data2"
        /\ dataAt' = now
        /\ clean' = FALSE
        /\ readFailed' = TRUE
        /\ UNCHANGED <<currentCard, served, outcome, isLoading, isUpdating,
                       countAt, remainingBefore>>
     \/ /\ o = "throw"
        /\ FailFetch
  /\ UNCHANGED <<pageVars, storeVars, now, cardsRemaining, againQueue, seen, counted,
                 lastRating, mountedAt, seenBefore, sessions>>

\* if (error): await fallbackQuery.order(next_review_at).limit(10)
DataFallback(o) ==
  /\ pc = "data2"
  /\ \/ /\ o = "ok"
        /\ \E rows \in Ordered(BaseMatch(dataAt)) :
              Present(PickCard(Limit(rows, BatchLimit)))
        /\ UNCHANGED clean
     \/ /\ o \in {"error", "throw"}
        /\ FailFetch
  /\ UNCHANGED <<pageVars, storeVars, now, cardsRemaining, againQueue, seen, counted,
                 lastRating, mountedAt, seenBefore, sessions>>

\* ---------------------------------------------------------- handleRate
\* The Flashcard is rendered, and its buttons enabled, only when
\* !isLoading && currentCard && !isUpdating.
CanRate == ~isLoading /\ ~isUpdating /\ currentCard # NoCard

\* variant: the rated card is never recorded as seen
handleRate_NoSeen(rating) ==
  /\ CanRate
  /\ isUpdating' = TRUE
  /\ againQueue' = IF rating = "good" THEN againQueue \ {currentCard.id}
                                      ELSE againQueue
  /\ lastRating' = rating
  /\ StartFetch
  /\ UNCHANGED <<pageVars, storeVars, now, currentCard, cardsRemaining, dataAt, seen,
                 counted, served, clean, mountedAt, seenBefore, sessions>>

\* variant: only the "good" branch records the rated card as seen
handleRate_SeenOnDone(rating) ==
  /\ CanRate
  /\ isUpdating' = TRUE
  /\ seen' = IF rating = "good" THEN seen \cup {currentCard.id} ELSE seen
  /\ againQueue' = IF rating = "good" THEN againQueue \ {currentCard.id}
                                      ELSE againQueue
  /\ lastRating' = rating
  /\ StartFetch
  /\ UNCHANGED <<pageVars, storeVars, now, currentCard, cardsRemaining, dataAt,
                 counted, served, clean, mountedAt, seenBefore, sessions>>

\* variant: "again" resets the interval and reschedules the word for
\* tomorrow, as a three-outcome scheduler would
handleRate_Reschedule(rating) ==
  /\ CanRate
  /\ isUpdating' = TRUE
  /\ seen' = seen \cup {currentCard.id}
  /\ againQueue' = IF rating = "good" THEN againQueue \ {currentCard.id}
                                      ELSE againQueue
  /\ lastRating' = rating
  /\ StartFetch
  /\ store' = IF rating = "again" /\ currentCard.id \in DOMAIN store
                THEN [store EXCEPT ![currentCard.id].interval_days = {1},
                                   ![currentCard.id].next_review_at = now + 1]
                ELSE store
  /\ UNCHANGED <<pageVars, nextId, now, currentCard, cardsRemaining, dataAt,
                 counted, served, clean, mountedAt, seenBefore, sessions>>

\* variant: `again` puts the rated card on the again queue
handleRate_Requeue(rating) ==
  /\ CanRate
  /\ isUpdating' = TRUE
  /\ seen' = seen \cup {currentCard.id}
  /\ againQueue' = IF rating = "good" THEN againQueue \ {currentCard.id}
                                      ELSE againQueue \cup {currentCard.id}
  /\ lastRating' = rating
  /\ StartFetch
  /\ UNCHANGED <<pageVars, storeVars, now, currentCard, cardsRemaining, dataAt,
                 counted, served, clean, mountedAt, seenBefore, sessions>>

handleRate(rating) ==
  /\ CanRate
  /\ isUpdating' = TRUE
  /\ seen' = seen \cup {currentCard.id}
  /\ againQueue' = IF rating = "good" THEN againQueue \ {currentCard.id}
                                      ELSE againQueue
  /\ lastRating' = rating
  /\ StartFetch
  /\ UNCHANGED <<pageVars, storeVars, now, currentCard, cardsRemaining, dataAt,
                 counted, served, clean, mountedAt, seenBefore, sessions>>

\* the "Check again" button of the empty state: onClick={fetchNextCard}
CheckAgain ==
  /\ ~isLoading /\ currentCard = NoCard
  /\ StartFetch
  /\ UNCHANGED <<pageVars, storeVars, now, currentCard, isUpdating, cardsRemaining,
                 againQueue, seen, dataAt, counted, served, clean, lastRating,
                 mountedAt, seenBefore, sessions>>

\* Leaving and re-entering the page: a new component instance with the
\* initial useState / useRef values, whose mount effect fetches.
\* variant: the new instance inherits the ids seen by the old one
NewInstance_KeepsSeen ==
  /\ sessions < MaxSessions
  /\ sessions' = sessions + 1
  /\ currentCard' = NoCard
  /\ isLoading' = TRUE
  /\ isUpdating' = FALSE
  /\ cardsRemaining' = 0
  /\ againQueue' = {}
  /\ seen' = seen
  /\ pc' = "mount"
  /\ countAt' = 0
  /\ dataAt' = 0
  /\ counted' = {}
  /\ served' = <<>>
  /\ outcome' = "none"
  /\ clean' = TRUE
  /\ remainingBefore' = 0
  /\ readFailed' = FALSE
  /\ lastRating' = "none"
  /\ mountedAt' = now
  /\ UNCHANGED <<pageVars, storeVars, now>>

NewInstance ==
  /\ sessions < MaxSessions
  /\ sessions' = sessions + 1
  /\ currentCard' = NoCard
  /\ isLoading' = TRUE
  /\ isUpdating' = FALSE
  /\ cardsRemaining' = 0
  /\ againQueue' = {}
  /\ seen' = {}
  /\ pc' = "mount"
  /\ countAt' = 0
  /\ dataAt' = 0
  /\ counted' = {}
  /\ served' = <<>>
  /\ outcome' = "none"
  /\ clean' = TRUE
  /\ remainingBefore' = 0
  /\ readFailed' = FALSE
  /\ lastRating' = "none"
  /\ mountedAt' = now
  /\ UNCHANGED <<pageVars, storeVars, now>>

Remount ==
  /\ NewInstance
  /\ UNCHANGED seenBefore

\* the same restart, with the ids the ended session had seen kept on record
Restart ==
  /\ NewInstance
  /\ seenBefore' = seen

\* ------------------------------------------------------------ the store
\* insert([{word, definitions, pos, pinyin, examples}]): the lexical columns
\* only; every scheduling column takes its DEFAULT (next_review_at and
\* created_at are both now()).
Inserted(table, id, t) ==
  [i \in DOMAIN table \cup {id} |-> IF i = id THEN DefaultRow(t) ELSE table[i]]

\* the table executes the insert of a handleSave of another client of the
\* shared table (the Lookup page is not mounted while the Revision page or
\* the Deck is): a step of the store, no page of this client changes
VocabularyInsert ==
  /\ nextId < MaxWords
  /\ nextId' = nextId + 1
  /\ store' = Inserted(store, nextId + 1, now)
  /\ UNCHANGED <<pageVars, now, sessionVars>>

Tick ==
  /\ now < MaxTime
  /\ now' = now + 1
  /\ UNCHANGED <<pageVars, storeVars, sessionVars>>

Next ==
  \/ MountFetch
  \/ \E o \in Outcomes : CountFiltered(o)
  \/ \E o \in Outcomes : CountFallback(o)
  \/ \E o \in Outcomes : CountCatch(o)
  \/ \E o \in Outcomes : DataFiltered(o)
  \/ \E o \in Outcomes : DataFallback(o)
  \/ \E r \in Ratings : handleRate(r)
  \/ CheckAgain
  \/ Remount
  \/ VocabularyInsert
  \/ Tick

Spec == Init /\ [][Next]_vars

\* ------------------------------------------- sessions across a restart
\* seed rows with the default scheduling columns, not learned
RestartRows ==
  [next_review_at : SeedTimes, interval_days : {{DefaultInterval}},
   ease_factor : {{DefaultEase}}, created_at : {0}, is_learned : {"false"}]

InitRestart ==
  /\ Init
  /\ \A i \in DOMAIN store : store[i] \in RestartRows

\* the sessions in which every rating given is `again`
NextRestart ==
  \/ MountFetch
  \/ \E o \in Outcomes : CountFiltered(o)
  \/ \E o \in Outcomes : CountFallback(o)
  \/ \E o \in Outcomes : CountCatch(o)
  \/ \E o \in Outcomes : DataFiltered(o)
  \/ \E o \in Outcomes : DataFallback(o)
  \/ handleRate("again")
  \/ CheckAgain
  \/ Restart
  \/ VocabularyInsert
  \/ Tick

SpecRestart == InitRestart /\ [][NextRestart]_vars

\* ------------------------------- one session without failures or saves
\* Every store query is answered, the user rates every card shown and may
\* press Check again in the empty state, and nothing else writes to the
\* table; the clock may advance.
NextSession ==
  \/ MountFetch
  \/ CountFiltered("ok")
  \/ DataFiltered("ok")
  \/ \E r \in Ratings : handleRate(r)
  \/ CheckAgain
  \/ Tick

SpecSession ==
  /\ Init
  /\ [][NextSession]_vars
  /\ WF_vars(MountFetch)
  /\ WF_vars(CountFiltered("ok"))
  /\ WF_vars(DataFiltered("ok"))
  /\ WF_vars(\E r \in Ratings : handleRate(r))

\* ------------------------------------ sessions over more than a batch
\* a table of BatchWords rows, all due and not learned, no two due at the
\* same time
InitBatch ==
  /\ store = [i \in 1..BatchWords |->
                [next_review_at |-> i - BatchWords,
                 interval_days |-> {DefaultInterval},
                 ease_factor |-> {DefaultEase}, created_at |-> i - BatchWords,
                 is_learned |-> "false"]]
  /\ nextId = BatchWords
  /\ now = 1
  /\ InitSession
  /\ InitDeckState
  /\ InitLookupState
  /\ InitCache
  /\ schedIn = NoSchedule
  /\ schedOut = NoTransition

NextBatch ==
  \/ MountFetch
  \/ \E o \in Outcomes : CountFiltered(o)
  \/ \E o \in Outcomes : CountFallback(o)
  \/ \E o \in Outcomes : CountCatch(o)
  \/ \E o \in Outcomes : DataFiltered(o)
  \/ \E o \in Outcomes : DataFallback(o)
  \/ \E r \in Ratings : handleRate(r)
  \/ CheckAgain
  \/ Tick

SpecBatch == InitBatch /\ [][NextBatch]_vars

\* ------------------------------------- the scheduler on its own inputs
\* a rating handed to the three-outcome scheduler for the stored state
RateB(rating) ==
  /\ schedIn # NoSchedule
  /\ schedOut' = [rating |-> rating, at |-> now,
                  state |-> Scheduler(schedIn, rating, now)]
  /\ UNCHANGED <<schedIn, deckVars, lookupVars, cacheVars, storeVars, now,
                 sessionVars>>

InitSched ==
  /\ schedIn \in SchedInputs
  /\ schedOut = NoTransition
  /\ InitDeckState
  /\ InitLookupState
  /\ InitCache
  /\ store = <<>>
  /\ nextId = 0
  /\ now = 1
  /\ InitSession

NextSched ==
  \/ \E r \in RatingsB : RateB(r)
  \/ Tick

SpecSched == InitSched /\ [][NextSched]_vars

\* ------------------------------------------------------------ the Deck
\* the copy of a row that the Deck holds in `words`
Copy(table, i) == [id |-> i, created_at |-> table[i].created_at]

\* .order("created_at", {ascending: true}) over every row of the table:
\* every listing of the rows in nondecreasing created_at.
OrderedByCreated(table) ==
  {[k \in 1..Cardinality(DOMAIN table) |-> Copy(table, f[k])] :
     f \in {g \in [1..Cardinality(DOMAIN table) -> DOMAIN table] :
              /\ \A a, b \in 1..Cardinality(DOMAIN table) :
                    a # b => g[a] # g[b]
              /\ \A a, b \in 1..Cardinality(DOMAIN table) :
                    a < b => table[g[a]].created_at <= table[g[b]].created_at}}

\* the Deck instance i is the one mounted
Live(i) == deckMounted /\ i = deckInst

\* a state setter of the Deck instance i: without effect once it is unmounted
SetState(i, new, old) == IF Live(i) THEN new ELSE old

\* what fetchWords of instance i leaves in `words` when its select is
\* answered o, against the table as it is at that moment: setWords(data ||
\* []) or, on an error, the list as it was
fetchWords(i, table, o) ==
  IF o = "ok" /\ Live(i) THEN OrderedByCreated(table) ELSE {words}

\* the list is rendered
ListShown == deckMounted /\ ~isLoadingDeck

Listed(w) == \E k \in 1..Len(words) : words[k].id = w

NoToast == [w |-> 0, created_at |-> 0, inst |-> 0]

\* the user opens the Deck: a new instance with the useState and useRef
\* initial values; its mount effect calls fetchWords: setIsLoading(true),
\* the select is issued
DeckOpen ==
  /\ ~deckMounted
  /\ deckInst < MaxInstances
  /\ deckInst' = deckInst + 1
  /\ deckMounted' = TRUE
  /\ words' = <<>>
  /\ isLoadingDeck' = TRUE
  /\ deckFetch' = deckFetch \cup {deckInst + 1}
  /\ deletingId' = 0
  /\ reviewingId' = 0
  /\ pendingDelete' = 0
  /\ UNCHANGED <<deckCalls, undoTimeoutRef, reviewing, swipes, timers, toast, deleting,
                 purging, removed, otherVars, storeVars, now, sessionVars>>

\* the select of the mount's fetchWords of instance i is answered; an error
\* raises the toast "Failed to load vocabulary"
MountSelect(i, o) ==
  /\ i \in deckFetch
  /\ deckFetch' = deckFetch \ {i}
  /\ words' \in fetchWords(i, store, o)
  /\ isLoadingDeck' = SetState(i, FALSE, isLoadingDeck)
  /\ toast' = IF o = "ok" THEN toast ELSE NoToast
  /\ UNCHANGED <<deckCalls, deckMounted, deckInst, deletingId, reviewingId, reviewing,
                 swipes, pendingDelete, undoTimeoutRef, timers, deleting,
                 purging, removed, otherVars, storeVars, now, sessionVars>>

\* ------------------------------------------------- the Deck: review later
\* handleReviewLater(id) of instance i is called: setReviewingId(id) and the
\* update, which carries the time of the call, is issued
handleReviewLater(i, id) ==
  /\ deckCalls < MaxDeckCalls
  /\ deckCalls' = deckCalls + 1
  /\ reviewingId' = SetState(i, id, reviewingId)
  /\ reviewing' = reviewing \cup
                    {[n |-> deckCalls + 1, id |-> id, inst |-> i, at |-> now,
                      pc |-> "update"]}

\* the Review Later button of a listed word, disabled while reviewingId is
\* that word
ReviewLaterButton(id) ==
  /\ ListShown
  /\ Listed(id)
  /\ reviewingId # id
  /\ handleReviewLater(deckInst, id)
  /\ UNCHANGED <<words, deckMounted, deckInst, isLoadingDeck, deckFetch,
                 deletingId, swipes, pendingDelete, undoTimeoutRef, timers,
                 toast, deleting, purging, removed, otherVars, storeVars,
                 now, sessionVars>>

\* variant: the update also makes the word due at the time of the call
ReviewUpdate_Reschedule(c, o) ==
  /\ c \in reviewing
  /\ c.pc = "update"
  /\ IF o = "ok"
       THEN /\ store' = IF c.id \in DOMAIN store
                          THEN [store EXCEPT ![c.id].created_at = c.at,
                                             ![c.id].next_review_at = c.at]
                          ELSE store
            /\ isLoadingDeck' = SetState(c.inst, TRUE, isLoadingDeck)
            /\ reviewing' = (reviewing \ {c}) \cup {[c EXCEPT !.pc = "fetch"]}
            /\ UNCHANGED <<reviewingId, toast>>
       ELSE /\ reviewing' = reviewing \ {c}
            /\ reviewingId' = SetState(c.inst, 0, reviewingId)
            /\ toast' = NoToast
            /\ UNCHANGED <<store, isLoadingDeck>>
  /\ UNCHANGED <<deckCalls, words, deckMounted, deckInst, deckFetch, deletingId, swipes,
                 pendingDelete, undoTimeoutRef, timers, deleting, purging,
                 removed, nextId, otherVars, now, sessionVars>>

\* update({created_at}).eq("id", id) is answered. ok: fetchWords is called,
\* setIsLoading(true) and its select issued; otherwise the toast "Failed to
\* update word" and finally setReviewingId(null)
ReviewUpdate(c, o) ==
  /\ c \in reviewing
  /\ c.pc = "update"
  /\ IF o = "ok"
       THEN /\ store' = IF c.id \in DOMAIN store
                          THEN [store EXCEPT ![c.id].created_at = c.at]
                          ELSE store
            /\ isLoadingDeck' = SetState(c.inst, TRUE, isLoadingDeck)
            /\ reviewing' = (reviewing \ {c}) \cup {[c EXCEPT !.pc = "fetch"]}
            /\ UNCHANGED <<reviewingId, toast>>
       ELSE /\ reviewing' = reviewing \ {c}
            /\ reviewingId' = SetState(c.inst, 0, reviewingId)
            /\ toast' = NoToast
            /\ UNCHANGED <<store, isLoadingDeck>>
  /\ UNCHANGED <<deckCalls, words, deckMounted, deckInst, deckFetch, deletingId, swipes,
                 pendingDelete, undoTimeoutRef, timers, deleting, purging,
                 removed, nextId, otherVars, now, sessionVars>>

\* the select of that fetchWords is answered: the list, setIsLoading(false),
\* the toast "Moved to later" (after the one of a failed select) and finally
\* setReviewingId(null)
ReviewFetch(c, o) ==
  /\ c \in reviewing
  /\ c.pc = "fetch"
  /\ reviewing' = reviewing \ {c}
  /\ words' \in fetchWords(c.inst, store, o)
  /\ isLoadingDeck' = SetState(c.inst, FALSE, isLoadingDeck)
  /\ reviewingId' = SetState(c.inst, 0, reviewingId)
  /\ toast' = NoToast
  /\ UNCHANGED <<deckCalls, deckMounted, deckInst, deckFetch, deletingId, swipes,
                 pendingDelete, undoTimeoutRef, timers, deleting, purging,
                 removed, otherVars, storeVars, now, sessionVars>>

\* ------------------------------------------------- the Deck: delete, undo
\* .delete().eq("id", w)
Remove(table, w) == [i \in DOMAIN table \ {w} |-> table[i]]

\* [...prev, wordData].sort(by created_at), a stable sort, on a list that is
\* in order: the word goes behind the last one whose copy was created no
\* later than it
InsertByCreated(q, wordData) ==
  LET k == Cardinality({j \in 1..Len(q) :
                          q[j].created_at <= wordData.created_at})
  IN  SubSeq(q, 1, k) \o <<wordData>> \o SubSeq(q, k + 1, Len(q))

\* clearTimeout(undoTimeoutRef.current) in instance i
Cleared(i, armed) ==
  {t \in armed : ~(t.inst = i /\ t.n = undoTimeoutRef[i])}

\* handleDelete(id) of a render of instance i whose pendingDelete was pend
\* is called: setDeletingId(id) and the select of the row is issued
handleDelete(i, id, pend) ==
  /\ deckCalls < MaxDeckCalls
  /\ deckCalls' = deckCalls + 1
  /\ deletingId' = SetState(i, id, deletingId)
  /\ deleting' = deleting \cup
                   {[n |-> deckCalls + 1, id |-> id, inst |-> i, pc |-> "select",
                     pend |-> pend, created_at |-> 0]}

\* the Delete button of a listed word, disabled while deletingId is that
\* word
DeleteButton(id) ==
  /\ ListShown
  /\ Listed(id)
  /\ deletingId # id
  /\ handleDelete(deckInst, id, pendingDelete)
  /\ UNCHANGED <<words, deckMounted, deckInst, isLoadingDeck, deckFetch,
                 reviewingId, reviewing, swipes, pendingDelete,
                 undoTimeoutRef, timers, toast, purging, removed, otherVars,
                 storeVars, now, sessionVars>>

\* handleTouchEnd of the card of a listed word after a swipe over the
\* threshold: setTimeout(() => { onSwipeLeft() or onSwipeRight() }, 200),
\* with the handler of the render the touch ended in; every swipe arms a
\* timeout of its own, also a second swipe of the same card (handleTouchStart
\* resets hasTriggered)
SwipeEnd(dir, id) ==
  /\ ListShown
  /\ Listed(id)
  /\ deckCalls + Len(swipes) < MaxDeckCalls
  /\ swipes' = Append(swipes,
                      [dir |-> dir, id |-> id, inst |-> deckInst,
                       pend |-> pendingDelete])
  /\ UNCHANGED <<deckCalls, words, deckMounted, deckInst, isLoadingDeck, deckFetch,
                 deletingId, reviewingId, reviewing, pendingDelete,
                 undoTimeoutRef, timers, toast, deleting, purging, removed,
                 otherVars, storeVars, now, sessionVars>>

\* the timeout armed first fires (all are armed for 200 ms), whatever has
\* become of the card: handleDelete or handleReviewLater is called
SwipeTimeout ==
  /\ swipes # <<>>
  /\ swipes' = Tail(swipes)
  /\ IF Head(swipes).dir = "left"
       THEN /\ handleDelete(Head(swipes).inst, Head(swipes).id,
                            Head(swipes).pend)
            /\ UNCHANGED <<reviewingId, reviewing>>
       ELSE /\ handleReviewLater(Head(swipes).inst, Head(swipes).id)
            /\ UNCHANGED <<deletingId, deleting>>
  /\ UNCHANGED <<words, deckMounted, deckInst, isLoadingDeck, deckFetch,
                 pendingDelete, undoTimeoutRef, timers, toast, purging,
                 removed, otherVars, storeVars, now, sessionVars>>

\* the tail of handleDelete: setWords(filter), setPendingDelete(deletedWord),
\* the toast with Undo, undoTimeoutRef.current = setTimeout(...), and
\* finally setDeletingId(null)
FinishDelete(d, created, armed) ==
  /\ words' = SetState(d.inst, SelectSeq(words, LAMBDA x : x.id # d.id), words)
  /\ pendingDelete' = SetState(d.inst, d.id, pendingDelete)
  /\ deletingId' = SetState(d.inst, 0, deletingId)
  /\ toast' = [w |-> d.id, created_at |-> created, inst |-> d.inst]
  /\ timers' = armed \cup {[n |-> d.n, w |-> d.id, inst |-> d.inst]}
  /\ undoTimeoutRef' = [undoTimeoutRef EXCEPT ![d.inst] = d.n]
  /\ removed' = removed \cup {d.id}
  /\ deleting' = deleting \ {d}

\* the select is answered; .single() reports a missing row as an error.
\* A failure raises the toast "Failed to delete word"
DeleteSelect(d, o) ==
  /\ d \in deleting
  /\ d.pc = "select"
  /\ \/ /\ o = "ok"
        /\ d.id \in DOMAIN store
        /\ IF d.pend # 0 /\ undoTimeoutRef[d.inst] # 0
             THEN /\ timers' = Cleared(d.inst, timers)
                  /\ deleting' =
                       (deleting \ {d}) \cup
                       {[d EXCEPT !.pc = "purge",
                                  !.created_at = store[d.id].created_at]}
                  /\ UNCHANGED <<words, pendingDelete, deletingId,
                                 undoTimeoutRef, toast, removed>>
             ELSE FinishDelete(d, store[d.id].created_at, timers)
     \/ /\ o # "ok" \/ d.id \notin DOMAIN store
        /\ deleting' = deleting \ {d}
        /\ deletingId' = SetState(d.inst, 0, deletingId)
        /\ toast' = NoToast
        /\ UNCHANGED <<words, pendingDelete, undoTimeoutRef, timers, removed>>
  /\ UNCHANGED <<deckCalls, deckMounted, deckInst, isLoadingDeck, deckFetch, reviewingId,
                 reviewing, swipes, purging, otherVars, storeVars, now,
                 sessionVars>>

\* await permanentlyDelete(pendingDelete) inside handleDelete is answered:
\* an error is logged and nothing else; setPendingDelete(null), then the
\* tail of handleDelete
DeletePurge(d, o) ==
  /\ d \in deleting
  /\ d.pc = "purge"
  /\ store' = IF o = "ok" THEN Remove(store, d.pend) ELSE store
  /\ FinishDelete(d, d.created_at, timers)
  /\ UNCHANGED <<deckCalls, deckMounted, deckInst, isLoadingDeck, deckFetch, reviewingId,
                 reviewing, swipes, purging, nextId, otherVars, now,
                 sessionVars>>

\* a timer of UNDO_TIMEOUT fires: permanentlyDelete(deletedWord) issues the
\* delete
TimerFire(t) ==
  /\ t \in timers
  /\ timers' = timers \ {t}
  /\ purging' = purging \cup {t}
  /\ UNCHANGED <<deckCalls, words, deckMounted, deckInst, isLoadingDeck, deckFetch,
                 deletingId, reviewingId, reviewing, swipes, pendingDelete,
                 undoTimeoutRef, toast, deleting, removed, otherVars,
                 storeVars, now, sessionVars>>

\* that delete is answered; setPendingDelete(null)
PurgeDone(p, o) ==
  /\ p \in purging
  /\ store' = IF o = "ok" THEN Remove(store, p.w) ELSE store
  /\ purging' = purging \ {p}
  /\ pendingDelete' = SetState(p.inst, 0, pendingDelete)
  /\ UNCHANGED <<deckCalls, words, deckMounted, deckInst, isLoadingDeck, deckFetch,
                 deletingId, reviewingId, reviewing, swipes, undoTimeoutRef,
                 timers, toast, deleting, removed, nextId, otherVars, now,
                 sessionVars>>

\* the Undo button of the toast on display: dismiss(toastId) and
\* restoreWord(deletedWord) of the instance that raised it; the toast "Word
\* restored" takes its place
Undo ==
  /\ toast # NoToast
  /\ timers' = Cleared(toast.inst, timers)
  /\ undoTimeoutRef' = [undoTimeoutRef EXCEPT ![toast.inst] = 0]
  /\ words' = SetState(toast.inst,
                       InsertByCreated(words, [id |-> toast.w,
                                               created_at |-> toast.created_at]),
                       words)
  /\ pendingDelete' = SetState(toast.inst, 0, pendingDelete)
  /\ toast' = NoToast
  /\ removed' = removed \ {toast.w}
  /\ UNCHANGED <<deckCalls, deckMounted, deckInst, isLoadingDeck, deckFetch, deletingId,
                 reviewingId, reviewing, swipes, deleting, purging, otherVars,
                 storeVars, now, sessionVars>>

\* the toast closes without Undo: its duration has passed or the user
\* dismissed it
ToastDismiss ==
  /\ toast # NoToast
  /\ toast' = NoToast
  /\ UNCHANGED <<deckCalls, words, deckMounted, deckInst, isLoadingDeck, deckFetch,
                 deletingId, reviewingId, reviewing, swipes, pendingDelete,
                 undoTimeoutRef, timers, deleting, purging, removed,
                 otherVars, storeVars, now, sessionVars>>

\* the user leaves the Deck: the unmount cleanup clears the timer the ref
\* holds; the state of the instance is gone, its calls, its other timers and
\* the timeouts of its cards go on
DeckLeave ==
  /\ deckMounted
  /\ timers' = Cleared(deckInst, timers)
  /\ deckMounted' = FALSE
  /\ words' = <<>>
  /\ isLoadingDeck' = TRUE
  /\ deletingId' = 0
  /\ reviewingId' = 0
  /\ pendingDelete' = 0
  /\ UNCHANGED <<deckCalls, deckInst, deckFetch, reviewing, swipes, undoTimeoutRef,
                 toast, deleting, purging, removed, otherVars, storeVars,
                 now, sessionVars>>

\* the table when the Deck is first opened: MaxSeeds rows, by turns due,
\* not yet due and learned
DeckRow(i) ==
  [next_review_at |-> IF i % 3 = 2 THEN MaxTime ELSE 0,
   interval_days |-> {DefaultInterval}, ease_factor |-> {DefaultEase},
   created_at |-> 0, is_learned |-> IF i % 3 = 0 THEN "true" ELSE "false"]

InitDeck ==
  /\ Init
  /\ nextId = MaxSeeds
  /\ \A i \in DOMAIN store : store[i] = DeckRow(i)

\* the steps of the Deck and of the clock; nothing but the Deck writes to
\* the table
NextDeck ==
  \/ DeckOpen
  \/ \E i \in deckFetch : \E o \in Outcomes : MountSelect(i, o)
  \/ \E id \in Ids : ReviewLaterButton(id)
  \/ \E c \in reviewing : \E o \in Outcomes : ReviewUpdate(c, o)
  \/ \E c \in reviewing : \E o \in Outcomes : ReviewFetch(c, o)
  \/ \E id \in Ids : DeleteButton(id)
  \/ \E dir \in {"left", "right"} : \E id \in Ids : SwipeEnd(dir, id)
  \/ SwipeTimeout
  \/ \E d \in deleting : \E o \in Outcomes : DeleteSelect(d, o)
  \/ \E d \in deleting : \E o \in Outcomes : DeletePurge(d, o)
  \/ \E t \in timers : TimerFire(t)
  \/ \E p \in purging : \E o \in Outcomes : PurgeDone(p, o)
  \/ Undo
  \/ ToastDismiss
  \/ DeckLeave
  \/ Tick

SpecDeck == InitDeck /\ [][NextDeck]_vars

\* the same Deck over a store that answers every request without error;
\* timers and timeouts fire and the store answers
NextDeckAnswered ==
  \/ DeckOpen
  \/ \E i \in deckFetch : MountSelect(i, "ok")
  \/ \E id \in Ids : ReviewLaterButton(id)
  \/ \E c \in reviewing : ReviewUpdate(c, "ok")
  \/ \E c \in reviewing : ReviewFetch(c, "ok")
  \/ \E id \in Ids : DeleteButton(id)
  \/ \E dir \in {"left", "right"} : \E id \in Ids : SwipeEnd(dir, id)
  \/ SwipeTimeout
  \/ \E d \in deleting : DeleteSelect(d, "ok")
  \/ \E d \in deleting : DeletePurge(d, "ok")
  \/ \E t \in timers : TimerFire(t)
  \/ \E p \in purging : PurgeDone(p, "ok")
  \/ Undo
  \/ ToastDismiss
  \/ DeckLeave
  \/ Tick

SpecDeckAnswered ==
  /\ InitDeck
  /\ [][NextDeckAnswered]_vars
  /\ WF_vars(\E i \in deckFetch : MountSelect(i, "ok"))
  /\ WF_vars(\E c \in reviewing : ReviewUpdate(c, "ok"))
  /\ WF_vars(\E c \in reviewing : ReviewFetch(c, "ok"))
  /\ WF_vars(SwipeTimeout)
  /\ WF_vars(\E t \in timers : TimerFire(t))
  /\ WF_vars(\E p \in purging : PurgeDone(p, "ok"))
  /\ WF_vars(\E d \in deleting : DeleteSelect(d, "ok"))
  /\ WF_vars(\E d \in deleting : DeletePurge(d, "ok"))

\* ------------------------------------------------------------ the words
\* a word is the sequence of its characters
Chars == {"a", "A", " "}

\* the strings of at most n characters
Strings(n) == UNION {[1..k -> Chars] : k \in 0..n}

\* String.prototype.toLowerCase
ToLowerCase(s) == [i \in 1..Len(s) |-> IF s[i] = "A" THEN "a" ELSE s[i]]

RECURSIVE TrimStart(_)
TrimStart(s) ==
  IF s # <<>> /\ Head(s) = " " THEN TrimStart(Tail(s)) ELSE s

RECURSIVE TrimEnd(_)
TrimEnd(s) ==
  IF s # <<>> /\ s[Len(s)] = " " THEN TrimEnd(SubSeq(s, 1, Len(s) - 1)) ELSE s

\* String.prototype.trim
Trim(s) == TrimEnd(TrimStart(s))

\* variant: the word is used as it was typed
normalizedWord_AsTyped(s) == s

\* word.trim().toLowerCase()
normalizedWord(s) == ToLowerCase(Trim(s))

\* ------------------------------------------------------ the Lookup page
\* variant: the word is added in front without removing its earlier entry
addToSearchHistory_NoFilter(history, w) ==
  LET updated == <<w>> \o history
  IN  SubSeq(updated, 1, Min(MAX_HISTORY, Len(updated)))

\* addToSearchHistory on the stored history
addToSearchHistory(history, w) ==
  LET filtered == SelectSeq(history, LAMBDA x : x # w)
      updated == <<w>> \o filtered
  IN  SubSeq(updated, 1, Min(MAX_HISTORY, Len(updated)))

LookupOutcomes == {"valid", "invalid", "error"}

\* the handle of the next functions.invoke call
FreeCall == CHOOSE i \in 1..MaxCalls : \A c \in invoking : c.id # i

\* lookupWord up to its await: a blank word only raises a toast
lookupWord(searchWord, forceRefresh) ==
  /\ Trim(searchWord) # <<>>
  /\ Cardinality(invoking) < MaxCalls
  /\ word' = normalizedWord(searchWord)
  /\ IF forceRefresh
       THEN /\ isRefreshing' = TRUE
            /\ UNCHANGED <<isLoadingLookup, result, invalidWordData>>
       ELSE /\ isLoadingLookup' = TRUE
            /\ result' = NoResult
            /\ invalidWordData' = FALSE
            /\ UNCHANGED isRefreshing
  /\ invoking' = invoking \cup
                   {[id |-> FreeCall, word |-> normalizedWord(searchWord),
                     forceRefresh |-> forceRefresh]}
  /\ UNCHANGED <<isSaving, searchHistory, saving, lastInsert, cacheVars,
                 deckVars, schedVars, storeVars, now, sessionVars>>

\* lookupWord from its await on: the answer of generate-vocab for call c
LookupAnswer(c, o) ==
  /\ c \in invoking
  /\ invoking' = invoking \ {c}
  /\ CASE o = "valid" ->
            /\ result' = [of |-> c.word]
            /\ invalidWordData' = FALSE
            /\ searchHistory' = addToSearchHistory(searchHistory, c.word)
       [] o = "invalid" ->
            /\ invalidWordData' = TRUE
            /\ result' = NoResult
            /\ UNCHANGED searchHistory
       [] o = "error" ->
            UNCHANGED <<result, invalidWordData, searchHistory>>
  /\ isLoadingLookup' = FALSE
  /\ isRefreshing' = FALSE
  /\ UNCHANGED <<word, isSaving, saving, lastInsert, cacheVars, deckVars,
                 schedVars, storeVars, now, sessionVars>>

\* the input's onChange; the input is disabled while loading
setWord(raw) ==
  /\ ~isLoadingLookup
  /\ word' = raw
  /\ UNCHANGED <<isLoadingLookup, isRefreshing, isSaving, result,
                 invalidWordData, searchHistory, invoking, saving, lastInsert,
                 cacheVars, deckVars, schedVars, storeVars, now, sessionVars>>

\* the Search button and the Enter key
handleLookup ==
  /\ ~isLoadingLookup
  /\ lookupWord(word, FALSE)

\* a badge of the Recent Searches list
HistoryClick(w) ==
  /\ result = NoResult /\ ~isLoadingLookup /\ ~invalidWordData
  /\ \E k \in 1..Len(searchHistory) : searchHistory[k] = w
  /\ lookupWord(w, FALSE)

\* a badge of the suggestions of an unrecognised word
\* setWord(suggestion); lookupWord(suggestion): a blank suggestion is put
\* into the input and lookupWord returns at once
handleSuggestionClick(suggestion) ==
  /\ invalidWordData /\ ~isLoadingLookup
  /\ IF Trim(suggestion) = <<>>
       THEN /\ word' = suggestion
            /\ UNCHANGED <<isLoadingLookup, isRefreshing, isSaving, result,
                           invalidWordData, searchHistory, invoking, saving,
                           lastInsert, cacheVars, deckVars, schedVars,
                           storeVars, now, sessionVars>>
       ELSE lookupWord(suggestion, FALSE)

\* a word form, phrase, synonym or antonym of the displayed result
onLookupWord(w) ==
  /\ result # NoResult /\ ~isLoadingLookup
  /\ lookupWord(w, FALSE)

handleRefresh ==
  /\ result # NoResult /\ ~isLoadingLookup /\ ~isRefreshing
  /\ word # <<>>
  /\ lookupWord(word, TRUE)

\* the X button of the input, shown while the input holds text
handleClear ==
  /\ word # <<>>
  /\ word' = <<>>
  /\ result' = NoResult
  /\ invalidWordData' = FALSE
  /\ UNCHANGED <<isLoadingLookup, isRefreshing, isSaving, searchHistory,
                 invoking, saving, lastInsert, cacheVars, deckVars, schedVars,
                 storeVars, now, sessionVars>>

\* the Clear button of the Recent Searches list
clearSearchHistory ==
  /\ result = NoResult /\ ~isLoadingLookup /\ ~invalidWordData
  /\ searchHistory # <<>>
  /\ searchHistory' = <<>>
  /\ UNCHANGED <<word, isLoadingLookup, isRefreshing, isSaving, result,
                 invalidWordData, invoking, saving, lastInsert, cacheVars,
                 deckVars, schedVars, storeVars, now, sessionVars>>

\* the Save button is rendered
CanSave == result # NoResult /\ ~isLoadingLookup

\* the Save to My Deck button: handleSave of the Lookup page up to its await
SaveClick ==
  /\ CanSave /\ ~isSaving
  /\ nextId < MaxWords
  /\ isSaving' = TRUE
  /\ saving' = [word |-> normalizedWord(word), of |-> result.of]
  /\ UNCHANGED <<word, isLoadingLookup, isRefreshing, result, invalidWordData,
                 searchHistory, invoking, lastInsert, cacheVars, deckVars,
                 schedVars, storeVars, now, sessionVars>>

\* handleSave of the Lookup page from its await on
SaveInsert(o) ==
  /\ saving # NoSave
  /\ IF o = "ok"
       THEN /\ nextId' = nextId + 1
            /\ store' = Inserted(store, nextId + 1, now)
            /\ lastInsert' = saving
       ELSE UNCHANGED <<storeVars, lastInsert>>
  /\ isSaving' = FALSE
  /\ saving' = NoSave
  /\ UNCHANGED <<word, isLoadingLookup, isRefreshing, result, invalidWordData,
                 searchHistory, invoking, cacheVars, deckVars, schedVars, now,
                 sessionVars>>

\* an empty table and no other page in use
InitElsewhere ==
  /\ store = <<>>
  /\ nextId = 0
  /\ now = 1
  /\ InitSession
  /\ InitDeckState
  /\ schedIn = NoSchedule
  /\ schedOut = NoTransition

\* the texts typed into the input: nothing, a blank, a word, the same word
\* in capitals after a blank, and another word
TypedWords == {<<>>, <<" ">>, <<"a">>, <<" ", "A">>, <<"a", "a">>}

\* the words the provider names in a result or as a suggestion
NamedWords == {normalizedWord(s) : s \in TypedWords} \ {<<>>}

InitLookup ==
  /\ InitElsewhere
  /\ InitLookupState
  /\ InitCache

NextLookup ==
  \/ \E raw \in TypedWords : setWord(raw)
  \/ handleLookup
  \/ \E w \in NamedWords : HistoryClick(w)
  \/ \E w \in NamedWords \cup {<<" ">>} : handleSuggestionClick(w)
  \/ \E w \in NamedWords : onLookupWord(w)
  \/ handleRefresh
  \/ handleClear
  \/ clearSearchHistory
  \/ \E c \in invoking : \E o \in LookupOutcomes : LookupAnswer(c, o)
  \/ SaveClick
  \/ \E o \in Outcomes : SaveInsert(o)

SpecLookup == InitLookup /\ [][NextLookup]_vars

\* ---------------------------------------------- a full search history
\* the word of k letters
Word(k) == [i \in 1..k |-> "a"]

\* the same word as it may be typed: capitals after a blank
Shouted(k) == <<" ">> \o [i \in 1..k |-> "A"]

\* a stored history of MAX_HISTORY words
FullHistory == [k \in 1..MAX_HISTORY |-> Word(k)]

\* the words looked up: the first word of the full history, typed in
\* capitals after a blank, its last word, and NewWords words it does not hold
HistoryInputs ==
  {Shouted(1), Word(MAX_HISTORY)}
    \cup {Word(MAX_HISTORY + k) : k \in 1..NewWords}

\* a table of MaxWords - 1 rows saved earlier, a stored history of
\* MAX_HISTORY words and the page after its mount effect
InitHistory ==
  /\ store = [i \in 1..(MaxWords - 1) |-> DefaultRow(0)]
  /\ nextId = MaxWords - 1
  /\ now = 1
  /\ InitSession
  /\ InitDeckState
  /\ schedIn = NoSchedule
  /\ schedOut = NoTransition
  /\ InitLookupPage
  /\ searchHistory = FullHistory
  /\ InitCache

NextHistory ==
  \/ \E raw \in HistoryInputs : setWord(raw)
  \/ handleLookup
  \/ \E w \in {normalizedWord(raw) : raw \in HistoryInputs} : HistoryClick(w)
  \/ \E w \in HistoryInputs \cup {<<" ">>} : handleSuggestionClick(w)
  \/ \E w \in HistoryInputs : onLookupWord(w)
  \/ handleRefresh
  \/ handleClear
  \/ clearSearchHistory
  \/ \E c \in invoking : \E o \in LookupOutcomes : LookupAnswer(c, o)
  \/ SaveClick
  \/ \E o \in Outcomes : SaveInsert(o)

SpecHistory == InitHistory /\ [][NextHistory]_vars

\* ------------------------------------------- the generate-vocab function
\* what the provider may say of a word: valid or not, in any of MaxGen
\* wordings
VocabData(w) == [is_valid : BOOLEAN, of : {w}, gen : 1..MaxGen]

ProviderOutcomes == {"valid", "invalid", "fail"}

\* the row of vocab_cache for word w, if any (word is UNIQUE)
CachedRows(w) == {row \in vocab_cache : row.word = w}

\* upsert(..., {onConflict: 'word'})
Upserted(w, data) ==
  {row \in vocab_cache : row.word # w} \cup {[word |-> w, data |-> data]}

FreeRequest == CHOOSE i \in 1..MaxRequests : \A q \in requests : q.id # i

Moved(q, pc2, data) ==
  (requests \ {q}) \cup
    {[id |-> q.id, word |-> q.word, pc |-> pc2, vocabData |-> data]}

UnchangedByServe ==
  UNCHANGED <<lookupVars, deckVars, schedVars, storeVars, now, sessionVars>>

\* serve up to the first await: a request without a word is answered 400
Request(raw, forceRefresh) ==
  /\ IF raw = <<>>
       THEN /\ response' = [status |-> 400]
            /\ UNCHANGED requests
       ELSE /\ Cardinality(requests) < MaxRequests
            /\ requests' = requests \cup
                 {[id |-> FreeRequest, word |-> normalizedWord(raw),
                   pc |-> IF forceRefresh THEN "provider" ELSE "cache",
                   vocabData |-> {}]}
            /\ UNCHANGED response
  /\ UNCHANGED vocab_cache
  /\ UnchangedByServe

\* the cache read of a request without forceRefresh
CacheRead(q, o) ==
  /\ q \in requests
  /\ q.pc = "cache"
  /\ CASE o = "ok" /\ CachedRows(q.word) # {} ->
            /\ \E row \in CachedRows(q.word) :
                  response' = [status |-> 200, data |-> row.data,
                               fromCache |-> TRUE]
            /\ requests' = requests \ {q}
       [] o = "throw" ->
            /\ response' = [status |-> 500]
            /\ requests' = requests \ {q}
       [] OTHER ->
            /\ requests' = Moved(q, "provider", {})
            /\ UNCHANGED response
  /\ UNCHANGED vocab_cache
  /\ UnchangedByServe

\* the call of the provider and the parsing of its answer
Provider(q, o, g) ==
  /\ q \in requests
  /\ q.pc = "provider"
  /\ CASE o = "valid" ->
            /\ requests' = Moved(q, "upsert",
                 {[is_valid |-> TRUE, of |-> q.word, gen |-> g]})
            /\ UNCHANGED response
       [] o = "invalid" ->
            /\ response' =
                 [status |-> 200,
                  data |-> [is_valid |-> FALSE, of |-> q.word, gen |-> g],
                  fromCache |-> FALSE]
            /\ requests' = requests \ {q}
       [] o = "fail" ->
            /\ response' = [status |-> 500]
            /\ requests' = requests \ {q}
  /\ UNCHANGED vocab_cache
  /\ UnchangedByServe

\* the upsert of a valid result and the response
Upsert(q, o) ==
  /\ q \in requests
  /\ q.pc = "upsert"
  /\ \E data \in q.vocabData :
        /\ vocab_cache' = IF o = "ok" THEN Upserted(q.word, data)
                          ELSE vocab_cache
        /\ response' = IF o = "throw" THEN [status |-> 500]
                       ELSE [status |-> 200, data |-> data,
                             fromCache |-> FALSE]
  /\ requests' = requests \ {q}
  /\ UnchangedByServe

InitServe ==
  /\ InitElsewhere
  /\ InitLookupState
  /\ InitCache

NextServe ==
  \/ \E raw \in Strings(MaxLen) : \E f \in BOOLEAN : Request(raw, f)
  \/ \E q \in requests : \E o \in Outcomes : CacheRead(q, o)
  \/ \E q \in requests : \E o \in ProviderOutcomes : \E g \in 1..MaxGen :
        Provider(q, o, g)
  \/ \E q \in requests : \E o \in Outcomes : Upsert(q, o)

SpecServe == InitServe /\ [][NextServe]_vars

\* ------------------------------------------------------------ vocabulary
Range(q) == {q[k] : k \in 1..Len(q)}

\* a step in which handleRate is entered
RateStep == ~isUpdating /\ isUpdating'

\* a step in which fetchNextCard presents a card
PresentStep == Len(served') = Len(served) + 1

\* a step in which fetchNextCard obtains its count and reports it
CountStep == pc \in {"count1", "count2", "count3"} /\ pc' = "data1"

\* a step of fetchNextCard or handleRate within the running session
SessionStep == pc' # pc /\ sessions' = sessions

\* ------------------------------------------------------------------- C1
\* C1: within one review session no word id is presented as the next card
\* twice, for any sequence of fetchNextCard and handleRate operations.
C1_NoRepeatInSession ==
  \A a, b \in 1..Len(served) : a # b => served[a] # served[b]

C1_Witness ==
  /\ Len(served) >= 2
  /\ Cardinality(seen) >= 1
  /\ lastRating = "again"
  /\ outcome = "presented"

\* ------------------------------------------------------------------- C2
\* C2: rating the presented card `again` leaves the word's persisted
\* scheduleState untouched and writes nothing to the store, neither in
\* handleRate nor in the fetch it awaits; its only effect on the session's
\* data is that the card's id is in `seen`, where it stays until the session
\* ends.
C2_AgainNoWrite ==
  [][ /\ (RateStep /\ lastRating' = "again") =>
            /\ store' = store
            /\ seen' = seen \cup {currentCard.id}
            /\ currentCard' = currentCard
            /\ cardsRemaining' = cardsRemaining
            /\ againQueue' = againQueue
      /\ (isUpdating /\ lastRating = "again" /\ SessionStep) =>
            /\ store' = store
            /\ currentCard.id \in seen'
      /\ (sessions' = sessions) => seen \subseteq seen' ]_vars

C2_Witness ==
  /\ lastRating = "again"
  /\ isUpdating
  /\ pc = "data1"
  /\ currentCard.id \in seen
  /\ currentCard.id \in DOMAIN store

\* ------------------------------------------------------------------- C3
\* C3: rating a card `done` ("good") leaves the store, hence the word's
\* scheduleState, unaltered, and the count that follows does not include
\* the rated card: the reported remaining number is the size of a set of
\* rows that excludes it.
C3_DoneDequeues ==
  [][ /\ (RateStep /\ lastRating' = "good") => store' = store
      /\ (isUpdating /\ lastRating = "good" /\ CountStep) =>
            /\ store' = store
            /\ currentCard.id \notin counted'
            /\ cardsRemaining' = Cardinality(counted') ]_vars

C3_Witness ==
  /\ lastRating = "good"
  /\ isUpdating
  /\ pc = "data1"
  /\ clean
  /\ currentCard.id \in DOMAIN store
  /\ Lte(store[currentCard.id], countAt)
  /\ NotLearned(store[currentCard.id])
  /\ counted # {}

\* ------------------------------------------------------------------- C4
\* C4: every card that fetchNextCard presents satisfied the query that
\* selected it: its next_review_at was at or before the query's timestamp,
\* which is at or before now, and its id was not in `seen`.
C4_PresentedWasDueAndUnseen ==
  [][ PresentStep =>
        LET c == served'[Len(served')]
        IN  /\ c = currentCard'.id
            /\ c \in DOMAIN store
            /\ store[c].next_review_at <= dataAt
            /\ dataAt <= now
            /\ c \notin seen
            /\ c \notin seen' ]_vars

C4_Witness ==
  /\ outcome = "presented"
  /\ seen # {}
  /\ \E i \in DOMAIN store : store[i].next_review_at > now

\* ------------------------------------------------------------------- C5
\* C5: a word whose is_learned is true is never presented by fetchNextCard
\* and never among the rows counted for the remaining number, on any path
\* of fetchNextCard.
C5_LearnedNeverServedNorCounted ==
  /\ \A k \in 1..Len(served) :
        served[k] \in DOMAIN store => store[served[k]].is_learned # "true"
  /\ \A i \in counted :
        i \in DOMAIN store => store[i].is_learned # "true"

\* ------------------------------------------------------------------- C6
\* C6: each card served has the smallest next_review_at among the due,
\* not-learned, not-yet-seen words at the moment of its selection, and its
\* next_review_at is not before that of the card served before it in the
\* session.
C6_ServedInDueOrder ==
  [][ PresentStep =>
        LET c == served'[Len(served')]
        IN  /\ \A i \in FilteredMatch(dataAt) :
                  store[c].next_review_at <= store[i].next_review_at
            /\ (Len(served) >= 1 /\ served[Len(served)] \in DOMAIN store) =>
                  store[served[Len(served)]].next_review_at
                     <= store[c].next_review_at ]_vars


\* ------------------------------------------------------------------- C7
\* C7: every rating, again or good, puts the rated card's id in `seen` in
\* the step that starts the next fetch, so the count and the selection
\* that follow exclude it.
C7_SeenBeforeNextQuery ==
  [][ /\ RateStep => (currentCard.id \in seen' /\ pc' = "count1")
      /\ (isUpdating /\ CountStep) => currentCard.id \notin counted'
      /\ (isUpdating /\ PresentStep) =>
            served'[Len(served')] # currentCard.id ]_vars

C7_Witness ==
  /\ outcome = "presented"
  /\ lastRating \in Ratings
  /\ Cardinality(seen) >= 2
  /\ currentCard.id \notin seen

\* ------------------------------------------------------------------- C8
\* C8: the remaining count reported by fetchNextCard is the number of
\* rows that, at the time of the count query, are due, not learned and not
\* in `seen`.
C8_CountIsDueNotLearnedUnseen ==
  [][ CountStep =>
        cardsRemaining' = Cardinality(FilteredMatch(countAt)) ]_vars

\* ------------------------------------------------------------------- C9
\* C9: with a store holding exactly three words, all saved with the
\* default state before the session was opened, all three are due at
\* once; a session without store failures that has reached the empty state
\* has served all three, in creation order, none twice, and reports 0
\* remaining.
C9_EndToEnd ==
  ( /\ nextId = 3
    /\ DOMAIN store = 1..3
    /\ \A i \in DOMAIN store :
          /\ store[i] = DefaultRow(store[i].created_at)
          /\ store[i].created_at < mountedAt
    /\ clean
    /\ pc = "idle"
    /\ outcome = "empty" )
  =>
  ( /\ \A i \in DOMAIN store : Lte(store[i], mountedAt)
    /\ served = <<1, 2, 3>>
    /\ cardsRemaining = 0 )

\* ------------------------------------------------------------------ C10
\* C10: a fetchNextCard that fails changes neither `seen` nor the card on
\* display (the session stays on the step that failed); no step of
\* fetchNextCard changes `seen`, and every id in `seen` is that of a card
\* that was presented in the session.
C10_FailedFetchKeepsSeen ==
  [][ /\ (outcome' = "failed" /\ SessionStep) =>
            /\ seen' = seen
            /\ currentCard' = currentCard
            /\ served' = served
      /\ (pc \in {"count1", "count2", "count3", "data1", "data2"}
            /\ SessionStep) => seen' = seen
      /\ seen' \subseteq Range(served') ]_vars

C10_Witness ==
  /\ outcome = "failed"
  /\ lastRating # "none"
  /\ currentCard # NoCard
  /\ currentCard.id \in seen
  /\ CanRate

\* ------------------------------------------------------------------ C11
\* C11: a fetchNextCard that fails leaves the session state it owns as it
\* was when the call began: `seen`, the card on display and the remaining
\* count reported before the call.
C11_FailedFetchNoPartialChange ==
  [][ (outcome' = "failed" /\ SessionStep) =>
        /\ seen' = seen
        /\ currentCard' = currentCard
        /\ cardsRemaining' = remainingBefore ]_vars

\* ------------------------------------------------------------------ C12
\* C12: a fetchNextCard in which a read failed, in the count or in the card
\* query, ends as a failure: it reports no count after the failed read, it
\* does not end by presenting a card or the empty state, and its failure
\* does not leave the empty state on display.
C12_ReadFailureSurfaced ==
  [][ /\ CountStep => ~readFailed'
      /\ (readFailed /\ pc' = "idle" /\ SessionStep) => outcome' = "failed"
      /\ (outcome' = "failed" /\ SessionStep) => currentCard' # NoCard ]_vars

\* ------------------------------------------------------------------ C13
\* the state of the per-session machine, read off the rendered state
Phase ==
  IF pc = "mount" THEN "Idle"
  ELSE IF isLoading THEN "Loading"
       ELSE IF currentCard # NoCard THEN "Presenting" ELSE "Empty"

\* C13: within a session the machine moves only Idle -> Loading, Loading ->
\* Presenting, Loading -> Empty when the query in flight matches no due,
\* not-learned, unseen row, Presenting -> Loading by a rating, and Empty ->
\* Loading; RatingReceived is passed through inside handleRate.
C13_Transitions ==
  [][ (Phase' # Phase /\ sessions' = sessions) =>
        \/ Phase = "Idle" /\ Phase' = "Loading"
        \/ Phase = "Loading" /\ Phase' = "Presenting"
        \/ /\ Phase = "Loading" /\ Phase' = "Empty"
           /\ FilteredMatch(IF pc \in {"data1", "data2"}
                              THEN dataAt ELSE countAt) = {}
        \/ Phase = "Presenting" /\ Phase' = "Loading" /\ RateStep
        \/ Phase = "Empty" /\ Phase' = "Loading" ]_vars

\* ------------------------------------------------------------------ C14
\* C14: from the moment handleRate is entered until the fetch it awaits has
\* ended, the page is loading and no rating can be given, so no handleRate
\* starts while one is in flight; a rating can be given only on a card
\* that a completed fetchNextCard put, or on failure left, on display, and
\* giving it takes that display down.
C14_NoDoubleSubmission ==
  /\ pc \notin {"idle", "mount"} => (isLoading /\ ~CanRate)
  /\ isUpdating =>
        /\ pc \notin {"idle", "mount"}
        /\ isLoading
        /\ currentCard.id \in seen
  /\ CanRate => (pc = "idle" /\ outcome \in {"presented", "failed"})

C14_Witness ==
  /\ isUpdating
  /\ pc = "data2"
  /\ lastRating = "good"
  /\ Len(served) >= 2
  /\ currentCard # NoCard

\* ------------------------------------------------------------------ C15
\* C15: no step of the Deck changes the scheduleState of a row that stays in
\* the table; a step that
\* changes a row's created_at is the update of a handleReviewLater call and
\* sets that one column of that call's row to the time of the call, and the
\* review queue, as the revision page would select and order it at that
\* moment, is the same before and after; a handleReviewLater whose update
\* fails changes neither the table nor the list.
C15_ReviewLaterOnlyCreatedAt ==
  [][ /\ \A i \in DOMAIN store \cap DOMAIN store' :
            ScheduleState(store'[i]) = ScheduleState(store[i])
      /\ (\E i \in DOMAIN store \cap DOMAIN store' :
             store'[i].created_at # store[i].created_at)
           =>
           /\ \E c \in reviewing :
                 /\ c.pc = "update"
                 /\ c.at <= now
                 /\ store' = [store EXCEPT ![c.id].created_at = c.at]
           /\ FilteredMatch(now)' = FilteredMatch(now)
           /\ Ordered(FilteredMatch(now))' = Ordered(FilteredMatch(now))
      /\ \A c \in reviewing : \A o \in Outcomes \ {"ok"} :
            ReviewUpdate(c, o) =>
               (store' = store /\ words' = words) ]_vars

C15_Witness ==
  /\ ListShown
  /\ reviewing = {}
  /\ Len(words) >= 2
  /\ words[Len(words)].id \in DOMAIN store
  /\ words[Len(words)].created_at = now
  /\ store[words[Len(words)].id].created_at = now
  /\ store[words[Len(words)].id].next_review_at = 0
  /\ now >= 1
  /\ words[1].created_at = 0

\* ------------------------------------------------------------------ C16
\* C16: the row that a save inserts has interval 1.0, ease 2.5, a due time
\* equal to the time of the save and is_learned false, so it is due, and
\* selected by the review query, from that moment on.
C16_SavedWithDefaultSchedule ==
  [][ (nextId' = nextId + 1) =>
        /\ ScheduleState(store'[nextId']) =
              [intervalDays |-> {1}, easeFactor |-> {25},
               nextReviewAt |-> now, isLearned |-> "false"]
        /\ Lte(store'[nextId'], now)
        /\ NotLearned(store'[nextId'])
        /\ \A i \in DOMAIN store : store'[i] = store[i] ]_vars

C16_Witness ==
  /\ nextId >= 1
  /\ nextId \in DOMAIN store
  /\ store[nextId].created_at = now
  /\ now >= 2
  /\ outcome = "presented"
  /\ currentCard.id = nextId

\* ------------------------------------------------------------------ C17
\* C17: the three-outcome transition is, for every stored state and rating:
\* again -> interval 1.0 and ease max(1.3, ease - 0.2); good -> interval *
\* ease and the ease unchanged; easy -> interval * ease * 1.5 and ease
\* min(2.8, ease + 0.1); and the new due time is the time of the rating
\* plus the interval rounded up to whole days, whatever the old due time.
\* `ease` is the stored ease factor whenever that lies within [1.3, 2.8],
\* the domain of the function; a stored ease factor outside it counts as
\* the nearest bound.
C17_PolicyBTransition ==
  schedOut # NoTransition =>
    LET i == schedIn.intervalDays
        e == IF schedIn.easeFactor < 130 THEN 130
             ELSE IF schedIn.easeFactor > 280 THEN 280
             ELSE schedIn.easeFactor
        o == schedOut.state
        days == o.nextReviewAt - schedOut.at
    IN  /\ schedOut.rating = "again" =>
              /\ o.intervalDays = IntervalUnit
              /\ o.easeFactor >= 130 /\ o.easeFactor >= e - 20
              /\ o.easeFactor \in {130, e - 20}
        /\ schedOut.rating = "good" =>
              /\ o.intervalDays * 100 = i * e
              /\ o.easeFactor = e
        /\ schedOut.rating = "easy" =>
              /\ o.intervalDays * 1000 = i * e * 15
              /\ o.easeFactor <= 280 /\ o.easeFactor <= e + 10
              /\ o.easeFactor \in {280, e + 10}
        /\ days * IntervalUnit >= o.intervalDays
        /\ (days - 1) * IntervalUnit < o.intervalDays
        /\ (i = 4000 /\ e = 250 /\ schedOut.rating = "again") =>
              (o.intervalDays = 1000 /\ o.easeFactor = 230 /\ days = 1)
        /\ (i = 2000 /\ e = 250 /\ schedOut.rating = "good") =>
              (o.intervalDays = 5000 /\ o.easeFactor = 250 /\ days = 5)
        /\ (i = 2000 /\ e = 275 /\ schedOut.rating = "easy") =>
              (o.intervalDays = 8250 /\ o.easeFactor = 280 /\ days = 9)

C17_Witness ==
  /\ schedIn.intervalDays = 2000
  /\ schedIn.easeFactor = 275
  /\ schedIn.nextReviewAt = 0
  /\ schedOut.rating = "easy"
  /\ schedOut.at = 2
  /\ schedOut.state.nextReviewAt = 11

\* ------------------------------------------------------------------ C18
\* C18: after a three-outcome transition the ease factor is within
\* [1.3, 2.8], for every rating and every stored ease factor, including one
\* outside that range.
C18_EaseWithinBounds ==
  schedOut # NoTransition =>
    (schedOut.state.easeFactor >= 130 /\ schedOut.state.easeFactor <= 280)

\* a stored ease factor below the range, rated good
C18_Witness ==
  /\ schedIn.easeFactor = 100
  /\ schedOut.rating = "good"
  /\ schedOut.state.easeFactor = 130
  /\ schedOut.state.intervalDays * 100 = schedIn.intervalDays * 130

\* ------------------------------------------------------------------ C19
\* C19: the interval carried by a loaded card is greater than zero,
\* whatever interval the row it was built from holds.
C19_LoadedIntervalPositive ==
  currentCard # NoCard => currentCard.interval_days > 0

\* ------------------------------------------------------------------ C20
\* C20: a restart empties `seen` and leaves the table as it is, and a rating
\* `again` writes nothing; in the new session the ids seen before the
\* restart are selected like any other: the card presented is due no later
\* than every still-due word seen before the restart and not yet seen
\* again, and the empty state is reached by an answered query only when no
\* such word is still due.
C20_SeenClearedOnRestart ==
  [][ /\ (sessions' = sessions + 1) =>
            /\ seen' = {}
            /\ seenBefore' = seen
            /\ store' = store
      /\ (RateStep /\ lastRating' = "again") => store' = store
      /\ (PresentStep /\ sessions = sessions') =>
            \A j \in seenBefore \ seen :
               (j \in DOMAIN store /\ Lte(store[j], dataAt)) =>
                  store[currentCard'.id].next_review_at
                     <= store[j].next_review_at
      /\ (outcome' = "empty" /\ SessionStep) =>
            \A j \in seenBefore \ seen :
               j \in DOMAIN store => ~Lte(store[j], dataAt) ]_vars

C20_Witness ==
  /\ sessions = 2
  /\ outcome = "presented"
  /\ currentCard.id \in seenBefore
  /\ Cardinality(seenBefore) >= 2
  /\ seen # {}

\* ------------------------------------------------------------------ C21
\* the due, not-learned rows whose id is not in `seen`
Candidates(t) ==
  {i \in DOMAIN store :
      store[i].next_review_at <= t /\ store[i].is_learned # "true"
        /\ i \notin seen}

\* C21: a fetchNextCard reports the empty state only when no candidate
\* exists at the time of its card query, and when the filtered card query
\* is answered and a candidate exists it presents one, also when more rows
\* are due than a batch holds and when `seen` has outgrown a batch.
C21_EmptyOnlyWithoutCandidate ==
  [][ /\ (outcome' = "empty" /\ SessionStep) => Candidates(dataAt) = {}
      /\ (pc = "data1" /\ pc' = "idle" /\ outcome' # "failed"
            /\ Candidates(dataAt) # {}) =>
            /\ outcome' = "presented"
            /\ currentCard'.id \in Candidates(dataAt) ]_vars

C21_Witness ==
  /\ clean
  /\ outcome = "presented"
  /\ Cardinality(seen) >= BatchLimit
  /\ Cardinality(DOMAIN store) > BatchLimit
  /\ currentCard.id \notin seen

\* ------------------------------------------------------------------ C22
\* the rows that are due at t and not learned
DueAt(t) ==
  {i \in DOMAIN store :
      store[i].next_review_at <= t /\ store[i].is_learned # "true"}

C23_ShownCardUnseen ==
  (~isLoading /\ currentCard # NoCard) => currentCard.id \notin seen

\* ------------------------------------------------------------------ C24
\* C24: the again queue is empty in every reachable state, and a rating,
\* whichever of the two it is, has one effect: the rated id joins `seen`,
\* the table, the card, the count and the (empty) queue stay as they are,
\* and the same fetchNextCard is started.
C24_RatingsCoincide ==
  [][ /\ againQueue = {} /\ againQueue' = {}
      /\ RateStep =>
            /\ seen' = seen \cup {currentCard.id}
            /\ store' = store
            /\ currentCard' = currentCard
            /\ cardsRemaining' = cardsRemaining
            /\ pc' = "count1" /\ countAt' = now /\ isLoading'
            /\ \A r \in Ratings :
                  againQueue' = IF r = "good"
                                  THEN againQueue \ {currentCard.id}
                                  ELSE againQueue ]_vars

C24_Witness ==
  /\ lastRating = "good"
  /\ outcome = "presented"
  /\ Cardinality(seen) >= 2
  /\ againQueue = {}
  /\ cardsRemaining >= 1

\* ------------------------------------------------------------------ C25
\* C25: at most one delete timer is armed at a time, and when a word is
\* made pending every word removed before it and not restored has had its
\* timer cancelled and its row deleted from the store.
C25_OnePendingDelete ==
  [][ /\ Cardinality(timers') <= 1
      /\ \A w \in removed' \ removed : \A v \in removed :
            v \notin DOMAIN store' /\ \A t \in timers' : t.w # v ]_vars

\* ------------------------------------------------------------------ C26
\* C26: the step that restores a word leaves it listed in the deck that
\* raised the toast, if that deck is still mounted, and with its row in the
\* store, and cancels no timer but that word's; and no step leaves a word
\* listed in the deck whose row is not in the store.
C26_UndoRestores ==
  [][ /\ \A w \in removed \ removed' :
            /\ Live(toast.inst) => Listed(w)'
            /\ w \in DOMAIN store'
            /\ \A t \in timers \ timers' : t.w = w
      /\ \A k \in 1..Len(words') : words'[k].id \in DOMAIN store' ]_vars

\* ------------------------------------------------------------------ C27
\* C27: a word removed from the list by handleDelete is, unless restored,
\* eventually deleted from the store.
C27_RemovedEventuallyDeleted ==
  \A w \in Ids :
     (w \in removed) ~> (w \notin removed \/ w \notin DOMAIN store)

\* ------------------------------------------------------------------ C28
\* C28: the stored search history never holds a word twice and never holds
\* more than MAX_HISTORY words; when a lookup is answered with a valid
\* result its word becomes the first entry, when it fails or is answered
\* with is_valid = false the history stays as it was; nothing but a valid
\* answer and the Clear button changes the history.
C28_SearchHistory ==
  /\ [](/\ Len(searchHistory) <= MAX_HISTORY
        /\ \A a, b \in 1..Len(searchHistory) :
              a # b => searchHistory[a] # searchHistory[b])
  /\ [][/\ \A c \in invoking : \A o \in LookupOutcomes :
              LookupAnswer(c, o) =>
                IF o = "valid"
                  THEN /\ searchHistory' # <<>>
                       /\ searchHistory'[1] = c.word
                       /\ c.word = normalizedWord(c.word)
                  ELSE searchHistory' = searchHistory
        /\ searchHistory' # searchHistory =>
              \/ clearSearchHistory
              \/ \E c \in invoking : LookupAnswer(c, "valid")]_vars

\* a full history in which a word already stored was moved to the front and
\* a new word then pushed the last entry out
C28_Witness ==
  /\ Len(searchHistory) = MAX_HISTORY
  /\ searchHistory[1] = Word(MAX_HISTORY + 1)
  /\ searchHistory[2] = Word(MAX_HISTORY)
  /\ \A k \in 1..Len(searchHistory) : searchHistory[k] # Word(MAX_HISTORY - 1)
  /\ invoking = {}

\* ------------------------------------------------------------------ C29
\* every row of vocab_cache holds a valid result of the word that keys it,
\* and the key is trimmed and in lower case
CacheWellFormed ==
  \A row \in vocab_cache :
     /\ row.data.is_valid
     /\ row.data.of = row.word
     /\ row.word = normalizedWord(row.word)
     /\ \A i \in 1..Len(row.word) : row.word[i] # "A"
     /\ row.word # <<>> => row.word[1] # " " /\ row.word[Len(row.word)] # " "
     /\ \A other \in vocab_cache : other.word = row.word => other = row

\* the cache changes only by the upsert of a valid result; an invalid
\* result or a failed provider call ends the request with the cache as it was
CacheWrittenByValidOnly ==
  /\ \A q \in requests : \A o \in ProviderOutcomes : \A g \in 1..MaxGen :
        Provider(q, o, g) /\ o # "valid" =>
           /\ q.id \notin {p.id : p \in requests'}
           /\ vocab_cache' = vocab_cache
  /\ vocab_cache' # vocab_cache =>
        \E q \in requests : q.pc = "upsert" /\ Upsert(q, "ok")

\* the request was answered in this step with the row cached for its word
AnsweredFromCache(q) ==
  /\ q.id \notin {p.id : p \in requests'}
  /\ \E row \in CachedRows(q.word) :
        response' = [status |-> 200, data |-> row.data, fromCache |-> TRUE]

\* C29 as stated: the cache is well formed, is written by valid results
\* only, and every cache read of a request without forceRefresh for a
\* cached word answers with the cached data, the provider not being called.
C29_CacheAsStated ==
  /\ []CacheWellFormed
  /\ [][/\ CacheWrittenByValidOnly
        /\ \A q \in requests : \A o \in Outcomes :
              CacheRead(q, o) /\ CachedRows(q.word) # {} =>
                 AnsweredFromCache(q)]_vars

\* C29: the cache is well formed and is written by valid results only;
\* a request without forceRefresh for a cached word is answered with the
\* cached data, the provider not being called, when its cache read
\* succeeds; when the read returns an error the request goes on to the
\* provider as if the word were not cached.
C29_CacheReadSucceeding ==
  /\ []CacheWellFormed
  /\ [][/\ CacheWrittenByValidOnly
        /\ \A q \in requests : \A o \in Outcomes :
              CacheRead(q, o) /\ CachedRows(q.word) # {} =>
                 IF o = "ok" THEN AnsweredFromCache(q)
                 ELSE IF o = "error"
                   THEN \E p \in requests' : p.id = q.id /\ p.pc = "provider"
                   ELSE response' = [status |-> 500]]_vars

\* a word was cached, refreshed by a forced request, and a request without
\* forceRefresh was then answered from the cache
C29_Witness ==
  /\ requests = {}
  /\ \E row \in vocab_cache :
        /\ row.word = <<"a">>
        /\ row.data.gen = MaxGen
        /\ response = [status |-> 200, data |-> row.data, fromCache |-> TRUE]
  /\ \E row \in vocab_cache : row.word # <<"a">>

\* ------------------------------------------------------------------ C30
\* C30: on the Lookup page a result that is displayed with its Save button
\* is the provider's data for the displayed headword, and the row handleSave
\* inserts carries the data of the word it names.
C30_SavedDataOfHeadword ==
  /\ CanSave => result.of = normalizedWord(word)
  /\ lastInsert # NoSave => lastInsert.of = lastInsert.word

====
